---- MODULE Spec2Model ----
(***************************************************************************)
(* A model of scri's mode_calculations.py: the four moment accumulators    *)
(* (_LdtVector, _LVector, _LLComparisonMatrix, _LLMatrix), the continuity  *)
(* walk of _LLDominantEigenvector and corotating_frame.                    *)
(*                                                                         *)
(* Numbers.  Mode data are Gaussian integers <<re, im>>.  A ladder         *)
(* coefficient sqrt(n) is held exactly as k*sqrt(c) with c square free, and *)
(* an accumulated value is a function from the square-free radicands to    *)
(* Gaussian integers (the coefficient of each sqrt(c)).  Cartesian values  *)
(* are held in units of 1/8, so that the code's 0.25, 0.5 and /2.0 are     *)
(* exact.  Arrays are indexed from 0 as in the source.                     *)
(***************************************************************************)
EXTENDS Integers, Sequences, FiniteSets, TLC

\* ---------------------------------------------------------------- bounds
\* largest ell of a mode index table
MaxEll == 1
\* largest number of time samples of a series fed to the accumulators
MaxTimes == 2
\* number of different data patterns (seeds 0..MaxSeed)
MaxSeed == 1
\* largest number of samples of a series whose eigenvectors are walked
MaxWalkTimes == 3
\* largest number of samples of a series whose corotating frame is built
MaxFrameTimes == 12
\* the alignment fractions are 0/FracDen .. FracDen/FracDen
FracDen == 4

VARIABLES
    W1,        \* first series: [LM, n_times, data, data_dot]
    W2,        \* second series of a two-series call: [LM, n_times, data]
    RoughDirection_default,  \* the array of LLDominantEigenvector's default argument
    eigvecs,   \* what np.linalg.eigh returns as dominant eigenvector per sample of W1
    pc,        \* "idle", the name of the running call, or "crash"
    i_mode,    \* loop counter of the running accumulator
    out,       \* the array allocated by the running call (Ldt, L, LL)
    hits,      \* number of += statements that hit each entry in the last loop body
    reads,     \* history: the neighbour reads of the last loop pass: [mode, offs]
    res,       \* per entry point, <<the value it returned last>> (None before)
    first,     \* per entry point, <<the value it returned first>> (None before)
    RoughDirection,       \* LLDominantEigenvector's argument: [shared, v]
    RoughDirectionIndex,  \* LLDominantEigenvector's argument
    wpc,       \* position inside _LLDominantEigenvector ("none" outside)
    mem,       \* eigenvecs[:, :, 2] (cells 0..n-1) and the cell on either side of it
    i,         \* loop counter of the continuity walk
    LastNorm,  \* <<p, q>>, the rational p/q
    LastNormOf, \* history: the cell whose norm LastNorm holds
    normBy,    \* history: per cell, the cells whose norm it was divided by
    decision,  \* history: the last flip decision taken
    Wf,        \* the series corotating_frame is called on, with what its collaborators return
    R0,        \* corotating_frame's argument
    z_alignment_region,  \* corotating_frame's argument: None or <<f1, f2>>, in units of 1/FracDen
    fpc,       \* position inside corotating_frame ("none" when it is not called)
    frame,     \* the rotors the integrator returned
    i1,        \* first sample of the alignment window
    i2,        \* one past the last sample of the alignment window
    rough_at,  \* history: the sample of W whose angular velocity became RoughDirection
    fret       \* what corotating_frame returned or raised: [kind, frame]

accVars == <<pc, i_mode, out, hits, reads>>
walkVars == <<wpc, mem, i, LastNorm, LastNormOf, normBy, decision>>
inputs == <<W1, W2, RoughDirection_default, eigvecs, RoughDirection, RoughDirectionIndex>>
frameVars == <<Wf, R0, z_alignment_region, fpc, frame, i1, i2, rough_at, fret>>
vars == <<inputs, accVars, walkVars, frameVars, res, first>>

\* no array (before a call has allocated or returned one)
None == <<>>

\* ------------------------------------------------------ Gaussian integers
CZero == <<0, 0>>
CAdd(a, b) == <<a[1] + b[1], a[2] + b[2]>>
CMul(a, b) == <<a[1] * b[1] - a[2] * b[2], a[1] * b[2] + a[2] * b[1]>>
CScale(k, a) == <<k * a[1], k * a[2]>>
conjugate(a) == <<a[1], -a[2]>>

\* ------------------------------------------------------ ladder coefficients
\* the largest k with k*k dividing n (0 for n = 0)
Outer(n) == IF n = 0 THEN 0
            ELSE CHOOSE k \in 1..n : /\ n % (k * k) = 0
                                     /\ \A j \in (k + 1)..n : n % (j * j) # 0
\* the square-free part of n (1 for n = 0)
Core(n) == IF n = 0 THEN 1 ELSE n \div (Outer(n) * Outer(n))

LadderSq(L, M) ==
    LET n == L * (L + 1) - M * (M + 1) IN IF n > 0 THEN n ELSE 0

\* ladder(L, M) = sqrt(L(L+1) - M(M+1)), as <<k, c>> standing for k*sqrt(c)
ladder(L, M) == <<Outer(LadderSq(L, M)), Core(LadderSq(L, M))>>

\* product of two real surds k1*sqrt(c1) * k2*sqrt(c2)
RMul(a, b) ==
    LET c == a[2] * b[2]
        k == a[1] * b[1] * Outer(c)
    IN IF k = 0 THEN <<0, 1>> ELSE <<k, Core(c)>>
\* an integer as a real surd
RInt(k) == <<k, 1>>

LadderSqs == {LadderSq(L, M) : L \in 0..MaxEll, M \in -MaxEll..MaxEll} \cup {1}
Rads == {Core(a * b) : a \in LadderSqs, b \in LadderSqs}

\* ------------------------------------------------------ accumulated values
SZero == [r \in Rads |-> CZero]
SAdd(a, b) == [r \in Rads |-> CAdd(a[r], b[r])]
SSub(a, b) == [r \in Rads |-> CAdd(a[r], CScale(-1, b[r]))]
SScale(k, a) == [r \in Rads |-> CScale(k, a[r])]
\* -1j * a
SMulNegI(a) == [r \in Rads |-> <<a[r][2], -a[r][1]>>]
\* a.real and a.imag, as (real) values
SReal(a) == [r \in Rads |-> <<a[r][1], 0>>]
SImag(a) == [r \in Rads |-> <<a[r][2], 0>>]
\* a / 2.0
SHalf(a) == [r \in Rads |-> <<a[r][1] \div 2, a[r][2] \div 2>>]
\* the complex number z times the real surd s
Term(z, s) == [r \in Rads |-> IF r = s[2] THEN CScale(s[1], z) ELSE CZero]

\* ------------------------------------------------------ series
\* the mode index table of ell_min..ell_max: every m of -ell..ell, increasing
RECURSIVE LMTable(_, _)
LMTable(ell_min, ell_max) ==
    IF ell_min > ell_max THEN <<>>
    ELSE [k \in 1..(2 * ell_min + 1) |-> <<ell_min, k - 1 - ell_min>>]
         \o LMTable(ell_min + 1, ell_max)

\* lm.shape[0]; lm[i_mode, 0]; lm[i_mode, 1] (rows counted from 0)
NModes(lm) == Len(lm)
EllOf(lm, k) == lm[k + 1][1]
MOf(lm, k) == lm[k + 1][2]

DataVals == << <<1, 0>>, <<0, 1>>, <<1, 1>>, <<0, 0>>, <<-1, 2>>, <<2, -1>>, <<0, -1>> >>
Pattern(seed, t, k) == DataVals[((seed + 2 * k + 3 * t + k * t) % Len(DataVals)) + 1]
\* a complex array of shape (nt, nm), and what lies beside it in memory
MakeData(seed, nt, nm) ==
    [nt |-> nt, nm |-> nm,
     v |-> [t \in 0..(nt - 1) |-> [k \in 0..(nm - 1) |-> Pattern(seed, t, k)]],
     past |-> CZero]

\* what may lie beside a complex array in memory
GarbageVals == {<<0, 0>>, <<3, 1>>}

\* data[i_time, i_mode] in compiled code without bounds checks: a negative
\* column wraps once, anything else outside the array reads what lies there
InBounds(dat, t, k) == t >= 0 /\ t < dat.nt /\ k >= -dat.nm /\ k < dat.nm
Read(dat, t, k) ==
    IF InBounds(dat, t, k)
    THEN dat.v[t][IF k < 0 THEN k + dat.nm ELSE k]
    ELSE dat.past

\* ------------------------------------------------------ += statements
\* A loop body ends in a list of statements  target[key] += value ; they are
\* held as <<key, value>> pairs and applied in order.
VecKeys == {<<a>> : a \in 0..2}
MatKeys == {<<a, b>> : a \in 0..2, b \in 0..2}

RECURSIVE SumStmts(_, _, _)
SumStmts(stmts, key, j) ==
    IF j > Len(stmts) THEN SZero
    ELSE IF stmts[j][1] = key THEN SAdd(stmts[j][2], SumStmts(stmts, key, j + 1))
         ELSE SumStmts(stmts, key, j + 1)

ApplyStmts(o, stmts) == [key \in DOMAIN o |-> SAdd(o[key], SumStmts(stmts, key, 1))]
HitsOf(keys, stmts) ==
    [key \in keys |-> Cardinality({j \in 1..Len(stmts) : stmts[j][1] = key})]
\* np.zeros((n_times, 3)) and np.zeros((n_times, 3, 3))
zeros(nt, keys) == [t \in 0..(nt - 1) |-> [key \in keys |-> SZero]]

\* ------------------------------------------------------ neighbour reads
\* a guard that lets the read of the last mode of an ell run one mode on
Guard_loose(L, M, off) == IF off > 0 THEN M + off <= L + 1 ELSE M + off >= -L
\* the condition under which a term reads data[i_time, i_mode + off]:
\* "if M + 1 <= L", "if M + 2 <= L", "if M - 1 >= -L", "if M - 2 >= -L"
Guard(L, M, off) == IF off > 0 THEN M + off <= L ELSE M + off >= -L
\* the largest offset the terms of an accumulator read: 1 for the vectors,
\* 2 for the tensors
Reach(keys) == IF keys = VecKeys THEN 1 ELSE 2
\* the offsets off # 0 for which the loop body for i_mode = k reads
\* data[i_time, k + off]
NeighbourReads(lm, k, reach) ==
    {off \in ((-reach)..reach) \ {0} : Guard(EllOf(lm, k), MOf(lm, k), off)}
NoReads == [mode |-> -1, offs |-> {}]

\* ------------------------------------------------------ _LdtVector
\* the loop body with the np.conjugate of each term left out
_LdtVector_unconjugated(data, datadot, lm, k, t) ==
    LET L == EllOf(lm, k)
        M == MOf(lm, k)
        dd == Read(datadot, t, k)
        Lp == IF Guard(L, M, 1)
              THEN Term(CMul(Read(data, t, k + 1), dd), ladder(L, M))
              ELSE SZero
        Lm == IF Guard(L, M, -1)
              THEN Term(CMul(Read(data, t, k - 1), dd), ladder(L, -M))
              ELSE SZero
        Lz == Term(CMul(Read(data, t, k), dd), RInt(M))
    IN << <<(<<0>>), SScale(4, SAdd(SImag(Lp), SImag(Lm)))>>,
          <<(<<1>>), SScale(-4, SSub(SReal(Lp), SReal(Lm)))>>,
          <<(<<2>>), SScale(8, SImag(Lz))>> >>

\* the loop body of _LdtVector for one (i_mode, i_time)
_LdtVector(data, datadot, lm, k, t) ==
    LET L == EllOf(lm, k)
        M == MOf(lm, k)
        dd == Read(datadot, t, k)
        Lp == IF Guard(L, M, 1)
              THEN Term(CMul(conjugate(Read(data, t, k + 1)), dd), ladder(L, M))
              ELSE SZero
        Lm == IF Guard(L, M, -1)
              THEN Term(CMul(conjugate(Read(data, t, k - 1)), dd), ladder(L, -M))
              ELSE SZero
        Lz == Term(CMul(conjugate(Read(data, t, k)), dd), RInt(M))
    IN << <<(<<0>>), SScale(4, SAdd(SImag(Lp), SImag(Lm)))>>,
          <<(<<1>>), SScale(-4, SSub(SReal(Lp), SReal(Lm)))>>,
          <<(<<2>>), SScale(8, SImag(Lz))>> >>

\* ------------------------------------------------------ _LVector
_LVector(data1, data2, lm, k, t) ==
    LET L == EllOf(lm, k)
        M == MOf(lm, k)
        d2 == Read(data2, t, k)
        Lp == IF Guard(L, M, 1)
              THEN Term(CMul(conjugate(Read(data1, t, k + 1)), d2), ladder(L, M))
              ELSE SZero
        Lm == IF Guard(L, M, -1)
              THEN Term(CMul(conjugate(Read(data1, t, k - 1)), d2), ladder(L, -M))
              ELSE SZero
        Lz == Term(CMul(conjugate(Read(data1, t, k)), d2), RInt(M))
    IN << <<(<<0>>), SScale(4, SAdd(Lp, Lm))>>,
          <<(<<1>>), SMulNegI(SScale(4, SSub(Lp, Lm)))>>,
          <<(<<2>>), SScale(8, Lz)>> >>

\* ------------------------------------------------------ _LLComparisonMatrix
\* the nine products in the (+,-,z) basis
_LLComparisonMatrix_terms(data1, data2, lm, k, t) ==
    LET L == EllOf(lm, k)
        M == MOf(lm, k)
        d2 == Read(data2, t, k)
        P(off) == CMul(conjugate(Read(data1, t, k + off)), d2)
    IN [LpLp |-> IF Guard(L, M, 2)
                 THEN Term(P(2), RMul(ladder(L, M + 1), ladder(L, M))) ELSE SZero,
        LpLm |-> IF Guard(L, M, -1)
                 THEN Term(P(0), RMul(ladder(L, M - 1), ladder(L, -M))) ELSE SZero,
        LmLp |-> IF Guard(L, M, 1)
                 THEN Term(P(0), RMul(ladder(L, -(M + 1)), ladder(L, M))) ELSE SZero,
        LmLm |-> IF Guard(L, M, -2)
                 THEN Term(P(-2), RMul(ladder(L, -(M - 1)), ladder(L, -M))) ELSE SZero,
        LpLz |-> IF Guard(L, M, 1)
                 THEN Term(P(1), RMul(ladder(L, M), RInt(M))) ELSE SZero,
        LzLp |-> IF Guard(L, M, 1)
                 THEN Term(P(1), RMul(RInt(M + 1), ladder(L, M))) ELSE SZero,
        LmLz |-> IF Guard(L, M, -1)
                 THEN Term(P(-1), RMul(ladder(L, -M), RInt(M))) ELSE SZero,
        LzLm |-> IF Guard(L, M, -1)
                 THEN Term(P(-1), RMul(RInt(M - 1), ladder(L, -M))) ELSE SZero,
        LzLz |-> Term(P(0), RInt(M * M))]

\* "Convert into (x,y,z) basis": the nine += statements, in order
_LLComparisonMatrix_cartesian(c) ==
    << <<(<<0, 0>>), SScale(2, SAdd(SAdd(c.LpLp, c.LmLm), SAdd(c.LmLp, c.LpLm)))>>,
       <<(<<0, 1>>), SMulNegI(SScale(2, SSub(SAdd(SSub(c.LpLp, c.LmLm), c.LmLp), c.LpLm)))>>,
       <<(<<0, 2>>), SScale(4, SAdd(c.LpLz, c.LmLz))>>,
       <<(<<1, 0>>), SMulNegI(SScale(2, SSub(SAdd(SSub(c.LpLp, c.LmLp), c.LpLm), c.LmLm)))>>,
       <<(<<1, 1>>), SScale(-2, SAdd(SSub(SSub(c.LpLp, c.LmLp), c.LpLm), c.LmLm))>>,
       <<(<<1, 1>>), SMulNegI(SScale(4, SSub(c.LpLz, c.LmLz)))>>,
       <<(<<2, 0>>), SScale(4, SAdd(c.LzLp, c.LzLm))>>,
       <<(<<2, 1>>), SMulNegI(SScale(4, SSub(c.LzLp, c.LzLm)))>>,
       <<(<<2, 2>>), SScale(8, c.LzLz)>> >>

_LLComparisonMatrix(data1, data2, lm, k, t) ==
    _LLComparisonMatrix_cartesian(_LLComparisonMatrix_terms(data1, data2, lm, k, t))

\* ------------------------------------------------------ _LLMatrix
_LLMatrix_terms(data, lm, k, t) ==
    LET L == EllOf(lm, k)
        M == MOf(lm, k)
        d == Read(data, t, k)
        P(off) == CMul(conjugate(Read(data, t, k + off)), d)
    IN [LpLp |-> IF Guard(L, M, 2)
                 THEN Term(P(2), RMul(ladder(L, M + 1), ladder(L, M))) ELSE SZero,
        LpLm |-> IF Guard(L, M, -1)
                 THEN Term(P(0), RMul(ladder(L, M - 1), ladder(L, -M))) ELSE SZero,
        LmLp |-> IF Guard(L, M, 1)
                 THEN Term(P(0), RMul(ladder(L, -(M + 1)), ladder(L, M))) ELSE SZero,
        LmLm |-> IF Guard(L, M, -2)
                 THEN Term(P(-2), RMul(ladder(L, -(M - 1)), ladder(L, -M))) ELSE SZero,
        LpLz |-> IF Guard(L, M, 1)
                 THEN Term(P(1), RMul(ladder(L, M), RInt(M))) ELSE SZero,
        LzLp |-> IF Guard(L, M, 1)
                 THEN Term(P(1), RMul(RInt(M + 1), ladder(L, M))) ELSE SZero,
        LmLz |-> IF Guard(L, M, -1)
                 THEN Term(P(-1), RMul(ladder(L, -M), RInt(M))) ELSE SZero,
        LzLm |-> IF Guard(L, M, -1)
                 THEN Term(P(-1), RMul(RInt(M - 1), ladder(L, -M))) ELSE SZero,
        LzLz |-> Term(P(0), RInt(M * M))]

\* "Convert into (x,y,z) basis"
_LLMatrix_cartesian(c) ==
    [LxLx |-> SScale(2, SAdd(SAdd(c.LpLp, c.LmLm), SAdd(c.LmLp, c.LpLm))),
     LxLy |-> SMulNegI(SScale(2, SSub(SAdd(SSub(c.LpLp, c.LmLm), c.LmLp), c.LpLm))),
     LxLz |-> SScale(4, SAdd(c.LpLz, c.LmLz)),
     LyLx |-> SMulNegI(SScale(2, SSub(SAdd(SSub(c.LpLp, c.LmLp), c.LpLm), c.LmLm))),
     LyLy |-> SScale(-2, SAdd(SSub(SSub(c.LpLp, c.LmLp), c.LpLm), c.LmLm)),
     LyLz |-> SMulNegI(SScale(4, SSub(c.LpLz, c.LmLz))),
     LzLx |-> SScale(4, SAdd(c.LzLp, c.LzLm)),
     LzLy |-> SMulNegI(SScale(4, SSub(c.LzLp, c.LzLm))),
     LzLz |-> SScale(8, c.LzLz)]

\* the nine entries stored as they stand, with no transpose average
_LLMatrix_unsymmetrized(x) ==
    << <<(<<0, 0>>), SReal(x.LxLx)>>,
       <<(<<0, 1>>), SReal(x.LxLy)>>,
       <<(<<0, 2>>), SReal(x.LxLz)>>,
       <<(<<1, 0>>), SReal(x.LyLx)>>,
       <<(<<1, 1>>), SReal(x.LyLy)>>,
       <<(<<1, 1>>), SReal(x.LyLz)>>,
       <<(<<2, 0>>), SReal(x.LzLx)>>,
       <<(<<2, 1>>), SReal(x.LzLy)>>,
       <<(<<2, 2>>), SReal(x.LzLz)>> >>

\* "Symmetrize": the nine += statements, in order
_LLMatrix_symmetrize(x) ==
    << <<(<<0, 0>>), SReal(x.LxLx)>>,
       <<(<<0, 1>>), SHalf(SReal(SAdd(x.LxLy, x.LyLx)))>>,
       <<(<<0, 2>>), SHalf(SReal(SAdd(x.LxLz, x.LzLx)))>>,
       <<(<<1, 0>>), SHalf(SReal(SAdd(x.LyLx, x.LxLy)))>>,
       <<(<<1, 1>>), SReal(x.LyLy)>>,
       <<(<<1, 2>>), SHalf(SReal(SAdd(x.LyLz, x.LzLy)))>>,
       <<(<<2, 0>>), SHalf(SReal(SAdd(x.LzLx, x.LxLz)))>>,
       <<(<<2, 1>>), SHalf(SReal(SAdd(x.LzLy, x.LyLz)))>>,
       <<(<<2, 2>>), SReal(x.LzLz)>> >>

_LLMatrix(data, lm, k, t) ==
    _LLMatrix_symmetrize(_LLMatrix_cartesian(_LLMatrix_terms(data, lm, k, t)))

\* ------------------------------------------------------ the entry points
Ops == {"LdtVector", "LVector", "LLComparisonMatrix", "LLMatrix", "LLDominantEigenvector"}

Returned(op) == res[op] # None
Result(op) == res[op][1]

\* a call that accumulates on top of the array it returned last
Alloc_reused(op, nt, keys) ==
    IF op # "LLDominantEigenvector" /\ Returned(op) THEN Result(op) ELSE zeros(nt, keys)
\* the array a call allocates for its result: np.zeros(...) in every entry point
Alloc(op, nt, keys) == zeros(nt, keys)

NoHits(keys) == [key \in keys |-> 0]

Call(op, keys) ==
    /\ pc = "idle"
    /\ pc' = op
    /\ out' = Alloc(op, W1.n_times, keys)
    /\ i_mode' = 0
    /\ hits' = NoHits(keys)
    /\ reads' = NoReads
    /\ UNCHANGED <<inputs, frameVars, walkVars, res, first>>

\* one pass of  for i_mode in xrange(lm.shape[0])  with its whole
\* for i_time in xrange(data.shape[0])  loop; body[t] is the list of +=
\* statements the loop body executes for i_time = t
Loop(op, lm, nt, keys, body) ==
    /\ pc = op
    /\ i_mode < NModes(lm)
    /\ out' = [t \in DOMAIN out |-> IF t < nt THEN ApplyStmts(out[t], body[t]) ELSE out[t]]
    /\ hits' = IF nt > 0 THEN HitsOf(keys, body[0]) ELSE hits
    /\ reads' = IF nt > 0 THEN [mode |-> i_mode, offs |-> NeighbourReads(lm, i_mode, Reach(keys))]
                        ELSE reads
    /\ i_mode' = i_mode + 1
    /\ UNCHANGED <<inputs, frameVars, walkVars, pc, res, first>>

Return(op, lm, value) ==
    /\ pc = op
    /\ i_mode = NModes(lm)
    /\ res' = [res EXCEPT ![op] = <<value>>]
    /\ first' = [first EXCEPT ![op] = IF @ = None THEN <<value>> ELSE @]
    /\ pc' = "idle"
    /\ out' = None
    /\ i_mode' = 0
    /\ hits' = None
    /\ reads' = NoReads
    /\ UNCHANGED <<inputs, frameVars, walkVars>>

LdtVector_call == Call("LdtVector", VecKeys)
LdtVector_loop ==
    Loop("LdtVector", W1.LM, W1.data.nt, VecKeys,
         [t \in 0..(W1.data.nt - 1) |-> _LdtVector(W1.data, W1.data_dot, W1.LM, i_mode, t)])
LdtVector_return == Return("LdtVector", W1.LM, out)

LVector_call == Call("LVector", VecKeys)
LVector_loop ==
    Loop("LVector", W1.LM, W1.data.nt, VecKeys,
         [t \in 0..(W1.data.nt - 1) |-> _LVector(W1.data, W2.data, W1.LM, i_mode, t)])
LVector_return == Return("LVector", W1.LM, out)

LLComparisonMatrix_call == Call("LLComparisonMatrix", MatKeys)
LLComparisonMatrix_loop ==
    Loop("LLComparisonMatrix", W1.LM, W1.data.nt, MatKeys,
         [t \in 0..(W1.data.nt - 1) |-> _LLComparisonMatrix(W1.data, W2.data, W1.LM, i_mode, t)])
LLComparisonMatrix_return == Return("LLComparisonMatrix", W1.LM, out)

LLMatrix_call == Call("LLMatrix", MatKeys)
LLMatrix_loop ==
    Loop("LLMatrix", W1.LM, W1.data.nt, MatKeys,
         [t \in 0..(W1.data.nt - 1) |-> _LLMatrix(W1.data, W1.LM, i_mode, t)])
LLMatrix_return == Return("LLMatrix", W1.LM, out)

\* data2 is the smaller array: the compiled loop, which checks no bounds, reads
\* outside of it and may also be stopped by the operating system
Loop_segfault ==
    /\ pc \in {"LVector", "LLComparisonMatrix"}
    /\ i_mode < NModes(W1.LM)
    /\ \E t \in 0..(W1.data.nt - 1) : ~InBounds(W2.data, t, i_mode)
    /\ pc' = "crash"
    /\ UNCHANGED <<inputs, frameVars, walkVars, i_mode, out, hits, reads, res, first>>

\* ------------------------------------------------------ real vectors
\* A sample of dpa is <<x, y, z, den>>, the vector (x, y, z)/den with den > 0.
\* The model's vectors have rational norms, so sqrt and division are exact.
Abs(x) == IF x < 0 THEN -x ELSE x
RECURSIVE GCD(_, _)
GCD(a, b) == IF b = 0 THEN a ELSE GCD(b, a % b)
Reduce(v) ==
    LET g == GCD(GCD(GCD(Abs(v[1]), Abs(v[2])), Abs(v[3])), v[4])
    IN <<v[1] \div g, v[2] \div g, v[3] \div g, v[4] \div g>>
Vec(x, y, z) == <<x, y, z, 1>>
\* dpa[i, 0] *= -1; dpa[i, 1] *= -1; dpa[i, 2] *= -1
Flip(v) == <<-v[1], -v[2], -v[3], v[4]>>
SqNum(v) == v[1] * v[1] + v[2] * v[2] + v[3] * v[3]
ISqrt(n) == CHOOSE k \in 0..n : k * k <= n /\ (k + 1) * (k + 1) > n
\* sqrt(dpa[i,0]**2 + dpa[i,1]**2 + dpa[i,2]**2), the rational <<p, q>>
NormOf(v) == <<ISqrt(SqNum(v)), v[4]>>
\* dpa[i, :] /= r
Divide(v, r) == Reduce(<<v[1] * r[2], v[2] * r[2], v[3] * r[2], v[4] * r[1]>>)
\* dpa_i[0]*dpa[i,0] + dpa_i[1]*dpa[i,1] + dpa_i[2]*dpa[i,2] < 0.
DotNegative(r, v) == r[1] * v[1] + r[2] * v[2] + r[3] * v[3] < 0
\* dNorm > Norm for a = dpa[i] and b = dpa[i - d]
FlipTest(a, b) ==
    LET dx == a[1] * b[4] - b[1] * a[4]
        dy == a[2] * b[4] - b[2] * a[4]
        dz == a[3] * b[4] - b[3] * a[4]
    IN dx * dx + dy * dy + dz * dz > SqNum(a) * b[4] * b[4]
\* LastNorm != 0.0 and LastNorm != 1.0
NeedsDivide(r) == r[1] # 0 /\ r[1] # r[2]

\* ------------------------------------------------------ _LLDominantEigenvector
\* dpa.shape[0]
NSamples == W1.n_times
\* the cell dpa[j] names: a negative index wraps once
Addr(j) == IF j < 0 THEN j + NSamples ELSE j
ValidIndex(j) == j >= 0 /\ j < NSamples
\* the index is inside the array after wrapping
InArray(j) == j >= -NSamples /\ j < NSamples
RoughValue == IF RoughDirection.shared THEN RoughDirection_default ELSE RoughDirection.v

\* if LastNorm != 0.0 and LastNorm != 1.0: dpa[j] /= LastNorm
NormalizeLast(m, j, ln) ==
    IF NeedsDivide(ln) THEN [m EXCEPT ![Addr(j)] = Divide(@, ln)] ELSE m
NoteDivide(nb, j, ln, owner) ==
    IF NeedsDivide(ln) THEN [nb EXCEPT ![Addr(j)] = @ \cup {owner}] ELSE nb

\* "Make the initial direction closer to RoughInitialEllDirection than not"
Orient(m, r, i_index) ==
    IF DotNegative(r, m[Addr(i_index)]) THEN [m EXCEPT ![Addr(i_index)] = Flip(@)] ELSE m

\* the flip of one loop pass: the memory after  if dNorm > Norm: dpa[i] *= -1
LoopFlip(m, j, d) ==
    IF FlipTest(m[Addr(j)], m[Addr(j - d)]) THEN [m EXCEPT ![Addr(j)] = Flip(@)] ELSE m

\* a pass that divides the sample it has just measured by the norm before it
LoopNormalized_current(j, d) == j
\* the cell the loop pass for sample j divides by LastNorm: dpa[i - d]
LoopNormalized(j, d) == j - d

NoDecision == [i |-> -1, nb |-> -1, flipped |-> FALSE, closer |-> FALSE, nbNormed |-> FALSE]

\* one pass of either loop, d = -1 toward the start and d = 1 toward the end
WalkStep(d) ==
    LET a == mem[Addr(i)]
        b == mem[Addr(i - d)]
        Norm == <<SqNum(a), a[4] * a[4]>>
        m1 == LoopFlip(mem, i, d)
        last == LoopNormalized(i, d)
    IN /\ mem' = NormalizeLast(m1, last, LastNorm)
       /\ normBy' = NoteDivide(normBy, last, LastNorm, LastNormOf)
       /\ LastNorm' = <<ISqrt(Norm[1]), a[4]>>
       /\ LastNormOf' = Addr(i)
       /\ decision' = [i |-> Addr(i), nb |-> Addr(i - d),
                       flipped |-> m1 # mem,
                       closer |-> DotNegative(a, b),
                       nbNormed |-> normBy[Addr(i - d)] # {}]
       /\ i' = i + d
       /\ UNCHANGED <<inputs, frameVars, accVars, wpc, res, first>>

LLDominantEigenvector_call ==
    /\ wpc = "none"
    /\ Call("LLDominantEigenvector", MatKeys)
LLDominantEigenvector_loop ==
    Loop("LLDominantEigenvector", W1.LM, W1.data.nt, MatKeys,
         [t \in 0..(W1.data.nt - 1) |-> _LLMatrix(W1.data, W1.LM, i_mode, t)])

\* what lies next to the array in memory
GarbageVecs == {Vec(0, 0, 0), Vec(0, 2, 0)}

\* eigenvals, eigenvecs = np.linalg.eigh(LL); dpa = eigenvecs[:, :, 2]
LLDominantEigenvector_eigh ==
    /\ pc = "LLDominantEigenvector"
    /\ wpc = "none"
    /\ i_mode = NModes(W1.LM)
    /\ \E g \in (IF InArray(RoughDirectionIndex) THEN {Vec(0, 0, 0)} ELSE GarbageVecs) :
          mem' = [a \in -1..NSamples |-> IF ValidIndex(a) THEN eigvecs[a] ELSE g]
    /\ normBy' = [a \in -1..NSamples |-> {}]
    /\ wpc' = "orient"
    /\ out' = None
    /\ hits' = None
    /\ reads' = NoReads
    /\ UNCHANGED <<inputs, frameVars, pc, i_mode, i, LastNorm, LastNormOf, decision, res, first>>

Walk_orient ==
    /\ wpc = "orient"
    /\ mem' = Orient(mem, RoughValue, RoughDirectionIndex)
    /\ LastNorm' = NormOf(mem[Addr(RoughDirectionIndex)])
    /\ LastNormOf' = Addr(RoughDirectionIndex)
    /\ i' = RoughDirectionIndex - 1
    /\ wpc' = "back"
    /\ UNCHANGED <<inputs, frameVars, accVars, normBy, decision, res, first>>

\* for i in xrange(i_index-1, -1, -1)
Walk_back ==
    /\ wpc = "back"
    /\ i > -1
    /\ WalkStep(-1)

\* after the first loop: normalize dpa[0], then d = 1 and LastNorm of the pivot
Walk_turn ==
    /\ wpc = "back"
    /\ i <= -1
    /\ LET m1 == NormalizeLast(mem, 0, LastNorm)
       IN /\ mem' = m1
          /\ LastNorm' = NormOf(m1[Addr(RoughDirectionIndex)])
    /\ normBy' = NoteDivide(normBy, 0, LastNorm, LastNormOf)
    /\ LastNormOf' = Addr(RoughDirectionIndex)
    /\ i' = RoughDirectionIndex + 1
    /\ wpc' = "fwd"
    /\ UNCHANGED <<inputs, frameVars, accVars, decision, res, first>>

\* for i in xrange(i_index+1, dpa.shape[0])
Walk_fwd ==
    /\ wpc = "fwd"
    /\ i < NSamples
    /\ WalkStep(1)

\* after the second loop: normalize dpa[-1]
Walk_end ==
    /\ wpc = "fwd"
    /\ i >= NSamples
    /\ mem' = NormalizeLast(mem, -1, LastNorm)
    /\ normBy' = NoteDivide(normBy, -1, LastNorm, LastNormOf)
    /\ wpc' = "done"
    /\ UNCHANGED <<inputs, frameVars, accVars, i, LastNorm, LastNormOf, decision, res, first>>

\* the pivot lies outside the array: the compiled helper, which checks no
\* bounds, may also be stopped by the operating system
Walk_segfault ==
    /\ wpc = "orient"
    /\ ~InArray(RoughDirectionIndex)
    /\ pc' = "crash"
    /\ wpc' = "none"
    /\ UNCHANGED <<inputs, frameVars, i_mode, out, hits, reads, mem, i, LastNorm, LastNormOf, normBy, decision, res, first>>

\* return dpa
LLDominantEigenvector_return ==
    /\ pc = "LLDominantEigenvector"
    /\ wpc = "done"
    /\ LET dpa == [t \in 0..(NSamples - 1) |-> mem[t]]
       IN /\ res' = [res EXCEPT !["LLDominantEigenvector"] = <<dpa>>]
          /\ first' = [first EXCEPT !["LLDominantEigenvector"] = IF @ = None THEN <<dpa>> ELSE @]
    /\ pc' = "idle"
    /\ wpc' = "none"
    /\ mem' = None
    /\ normBy' = None
    /\ decision' = NoDecision
    /\ i' = 0
    /\ LastNorm' = <<0, 1>>
    /\ LastNormOf' = 0
    /\ UNCHANGED <<inputs, frameVars, i_mode, out, hits, reads>>

\* ------------------------------------------------------ rotors
\* A rotor is <<w, x, y, z>>, the quaternion w + x i + y j + z k.  A unit
\* rotor is held as the integer vector with no common factor that points the
\* same way, so that the norms the code divides by stay out of the
\* arithmetic; <<0, 0, 0, 0>> is a rotor of nans.
QOne == <<1, 0, 0, 0>>
Qz == <<0, 0, 0, 1>>
QNaN == <<0, 0, 0, 0>>
QMul(a, b) ==
    <<a[1] * b[1] - a[2] * b[2] - a[3] * b[3] - a[4] * b[4],
      a[1] * b[2] + a[2] * b[1] + a[3] * b[4] - a[4] * b[3],
      a[1] * b[3] - a[2] * b[4] + a[3] * b[1] + a[4] * b[2],
      a[1] * b[4] + a[2] * b[3] - a[3] * b[2] + a[4] * b[1]>>
QConj(a) == <<a[1], -a[2], -a[3], -a[4]>>
QNeg(a) == <<-a[1], -a[2], -a[3], -a[4]>>
QSq(a) == a[1] * a[1] + a[2] * a[2] + a[3] * a[3] + a[4] * a[4]
\* q / |q| ; 0/0 is nan
normalized(q) ==
    LET g == GCD(GCD(GCD(Abs(q[1]), Abs(q[2])), Abs(q[3])), Abs(q[4]))
    IN IF g = 0 THEN QNaN ELSE <<q[1] \div g, q[2] \div g, q[3] \div g, q[4] \div g>>
\* the rotors np.sqrt_of_rotor may return for a unit rotor q: (1 + q)/|1 + q|,
\* and at q = -1, where that is 0/0, nan or a half turn
sqrt_of_rotor(q) ==
    LET n == ISqrt(QSq(q))
        s == <<n + q[1], q[2], q[3], q[4]>>
    IN IF q # QNaN /\ s = QNaN THEN {QNaN, <<0, 1, 0, 0>>} ELSE {normalized(s)}
\* the inverse of a unit rotor
inverse(q) == QConj(q)
RECURSIVE QPow(_, _)
QPow(g, k) == IF k = 0 THEN QOne ELSE QMul(QPow(g, k - 1), g)
\* (Ri.conjugate() * quaternion.quaternion(*Vhati) * Ri).vec
Vhat_corot(Ri, Vhati) ==
    LET q == QMul(QMul(QConj(Ri), <<0, Vhati[1], Vhati[2], Vhati[3]>>), Ri)
    IN <<q[2], q[3], q[4], Vhati[4]>>
\* the sum of two rational vectors
VAdd(a, b) ==
    <<a[1] * b[4] + b[1] * a[4], a[2] * b[4] + b[2] * a[4], a[3] * b[4] + b[3] * a[4], a[4] * b[4]>>
RECURSIVE VSum(_, _)
VSum(V, cnt) == IF cnt = 0 THEN <<0, 0, 0, 1>> ELSE VAdd(VSum(V, cnt - 1), V[cnt - 1])
\* quaternion.quaternion(*np.mean(Vhat_corot, axis=0)).normalized() over cnt > 0 rows
Vhat_corot_mean(V, cnt) ==
    LET sum == VSum(V, cnt)
    IN normalized(<<0, sum[1], sum[2], sum[3]>>)

\* ------------------------------------------------------ corotating_frame
\* position of the rough direction in its window, and the window's length
RoughPosition == 10
RoughWindow == 21

NoReturn == [kind |-> "none", frame |-> None]
\* W.t is 0, 1, .., n_times-1, so W.t[0] = 0
initial_time == 0
\* W.max_norm_time() - initial_time
inspiral_time == Wf.peak - initial_time
\* FracDen * (initial_time + f * inspiral_time) for the fraction f / FracDen
FracTime(f) == FracDen * initial_time + f * inspiral_time
\* np.argmin(np.abs(W.t - t)): the first sample nearest to t
argmin(ft) ==
    LET Dist(k) == Abs(FracDen * k - ft)
    IN CHOOSE k \in 0..(Wf.n_times - 1) :
          /\ \A j \in 0..(Wf.n_times - 1) : Dist(k) <= Dist(j)
          /\ \A j \in 0..(k - 1) : Dist(j) > Dist(k)
Max(a, b) == IF a > b THEN a ELSE b
Min(a, b) == IF a < b THEN a ELSE b
\* number of rows of x[a:b] for an array x of n rows, 0 <= a, b
SliceLen(n, a, b) == Max(0, Min(b, n) - Min(a, n))
SliceData(dat, a, b) ==
    [nt |-> SliceLen(dat.nt, a, b), nm |-> dat.nm,
     v |-> [t \in 0..(SliceLen(dat.nt, a, b) - 1) |-> dat.v[a + t]],
     past |-> dat.past]
\* W[a:b]
SliceSeries(a, b) ==
    [LM |-> Wf.LM, n_times |-> SliceLen(Wf.n_times, a, b),
     data |-> SliceData(Wf.data, a, b), data_dot |-> SliceData(Wf.data_dot, a, b)]

\* t, frame = integrate_angular_velocity(..., R0=R0, ...): the integrator
\* returns R0 at the first sample and turns by Wf.step from sample to sample
corotating_frame_call ==
    /\ fpc = "idle"
    /\ frame' = [k \in 0..(Wf.n_times - 1) |-> QMul(R0, QPow(Wf.step, k))]
    /\ fpc' = "integrated"
    /\ UNCHANGED <<inputs, accVars, walkVars, res, first,
                   Wf, R0, z_alignment_region, i1, i2, rough_at, fret>>

\* z_alignment_region is None: return frame * quaternion.one
corotating_frame_return ==
    /\ fpc = "integrated"
    /\ z_alignment_region = None
    /\ fret' = [kind |-> "frame", frame |-> [k \in DOMAIN frame |-> QMul(frame[k], QOne)]]
    /\ fpc' = "done"
    /\ UNCHANGED <<inputs, accVars, walkVars, res, first,
                   Wf, R0, z_alignment_region, frame, i1, i2, rough_at>>

\* i1 = np.argmin(np.abs(W.t-t1)); i2 = np.argmin(np.abs(W.t-t2))
corotating_frame_window ==
    /\ fpc = "integrated"
    /\ z_alignment_region # None
    /\ i1' = argmin(FracTime(z_alignment_region[1]))
    /\ i2' = argmin(FracTime(z_alignment_region[2]))
    /\ fpc' = "window"
    /\ UNCHANGED <<inputs, accVars, walkVars, res, first,
                   Wf, R0, z_alignment_region, frame, rough_at, fret>>

\* the first sample of the rough direction's window
i1m == Max(0, i1 - RoughPosition)
i1p == i1m + RoughWindow

\* RoughDirection = W[i1m:i1p].angular_velocity()[10], and W[i1:i2] as the
\* series LLDominantEigenvector is called on
corotating_frame_rough ==
    /\ fpc = "window"
    /\ RoughPosition < SliceLen(Wf.n_times, i1m, i1p)
    /\ rough_at' = i1m + RoughPosition
    /\ RoughDirection' = [shared |-> FALSE, v |-> Wf.omega[i1m + RoughPosition]]
    /\ RoughDirectionIndex' = 0
    /\ W1' = SliceSeries(i1, i2)
    /\ eigvecs' = [t \in 0..(SliceLen(Wf.n_times, i1, i2) - 1) |-> Wf.eig[i1 + t]]
    /\ fpc' = "eig"
    /\ UNCHANGED <<W2, RoughDirection_default, accVars, walkVars, res, first,
                   Wf, R0, z_alignment_region, frame, i1, i2, fret>>

\* the window of the rough direction has no row 10
corotating_frame_IndexError ==
    /\ fpc = "window"
    /\ RoughPosition >= SliceLen(Wf.n_times, i1m, i1p)
    /\ fret' = [kind |-> "IndexError", frame |-> None]
    /\ fpc' = "done"
    /\ UNCHANGED <<inputs, accVars, walkVars, res, first,
                   Wf, R0, z_alignment_region, frame, i1, i2, rough_at>>

\* Vhat = W[i1:i2].LLDominantEigenvector(RoughDirection=RoughDirection, RoughDirectionIndex=0)
corotating_frame_eig ==
    /\ fpc = "eig"
    /\ ~Returned("LLDominantEigenvector")
    /\ LLDominantEigenvector_call

\* the rows of zip(R, Vhat) for R = frame[i1:i2]
VhatRows == SliceLen(Wf.n_times, i1, i2)

\* the mean, the correction rotor, and  return frame * correction_rotor
corotating_frame_return_aligned ==
    /\ fpc = "eig"
    /\ pc = "idle"
    /\ Returned("LLDominantEigenvector")
    /\ VhatRows > 0
    /\ LET Vhat == Result("LLDominantEigenvector")
           V == [j \in 0..(VhatRows - 1) |-> Vhat_corot(frame[i1 + j], Vhat[j])]
           mean == Vhat_corot_mean(V, VhatRows)
       IN \E root \in sqrt_of_rotor(QMul(QNeg(Qz), mean)) :
             LET correction_rotor == inverse(root)
             IN fret' = [kind |-> "frame",
                         frame |-> [k \in DOMAIN frame |->
                                       normalized(QMul(frame[k], correction_rotor))]]
    /\ fpc' = "done"
    /\ UNCHANGED <<inputs, accVars, walkVars, res, first,
                   Wf, R0, z_alignment_region, frame, i1, i2, rough_at>>

\* zip(R, Vhat) has no rows: np.mean of the empty array is the scalar nan,
\* which quaternion.quaternion(*nan) cannot unpack
corotating_frame_TypeError ==
    /\ fpc = "eig"
    /\ pc = "idle"
    /\ Returned("LLDominantEigenvector")
    /\ VhatRows = 0
    /\ fret' = [kind |-> "TypeError", frame |-> None]
    /\ fpc' = "done"
    /\ UNCHANGED <<inputs, accVars, walkVars, res, first,
                   Wf, R0, z_alignment_region, frame, i1, i2, rough_at>>

\* ------------------------------------------------------ specification
Series(lm, nt, seed) ==
    [LM |-> lm, n_times |-> nt,
     data |-> MakeData(seed, nt, NModes(lm)),
     data_dot |-> MakeData(seed + 3, nt, NModes(lm))]

\* vectors of norm 0, 1, 2 and 5
WalkVecs == {Vec(0, 0, 0), Vec(0, 0, 1), Vec(-2, 0, 0), Vec(3, 4, 0), Vec(0, 3, 4)}
EigVals == <<Vec(0, 0, -1), Vec(3, 4, 0), Vec(0, -3, -4), Vec(2, 0, 0)>>
EigPattern(seed, t) == EigVals[((seed + t) % Len(EigVals)) + 1]

\* corotating_frame is not called
NoFrame ==
    /\ Wf = None
    /\ R0 = None
    /\ z_alignment_region = None
    /\ fpc = "none"
    /\ frame = None
    /\ i1 = 0
    /\ i2 = 0
    /\ rough_at = -1
    /\ fret = NoReturn

InitCalls ==
    /\ RoughDirection_default = <<0, 0, 1>>
    /\ pc = "idle"
    /\ i_mode = 0
    /\ out = None
    /\ hits = None
    /\ reads = NoReads
    /\ res = [op \in Ops |-> None]
    /\ first = [op \in Ops |-> None]
    /\ wpc = "none"
    /\ mem = None
    /\ i = 0
    /\ LastNorm = <<0, 1>>
    /\ LastNormOf = 0
    /\ normBy = None
    /\ decision = NoDecision

Init ==
    /\ \E ell_min \in 0..MaxEll, nt \in 1..MaxTimes, seed \in 0..MaxSeed :
          /\ W1 = Series(LMTable(ell_min, MaxEll), nt, seed)
          /\ eigvecs = [t \in 0..(nt - 1) |-> EigPattern(seed, t)]
          /\ RoughDirectionIndex = seed % nt
    /\ \E same \in BOOLEAN :
          W2 = IF same THEN [LM |-> W1.LM, n_times |-> W1.n_times, data |-> W1.data]
               ELSE [LM |-> W1.LM, n_times |-> W1.n_times, data |-> W1.data_dot]
    /\ RoughDirection = [shared |-> TRUE, v |-> <<0, 0, 1>>]
    /\ InitCalls
    /\ NoFrame

Next ==
    \/ LdtVector_call \/ LdtVector_loop \/ LdtVector_return
    \/ LVector_call \/ LVector_loop \/ LVector_return
    \/ LLComparisonMatrix_call \/ LLComparisonMatrix_loop \/ LLComparisonMatrix_return
    \/ LLMatrix_call \/ LLMatrix_loop \/ LLMatrix_return
    \/ LLDominantEigenvector_call \/ LLDominantEigenvector_loop
    \/ LLDominantEigenvector_eigh
    \/ Walk_orient \/ Walk_back \/ Walk_turn \/ Walk_fwd \/ Walk_end
    \/ LLDominantEigenvector_return

Spec == Init /\ [][Next]_vars

\* ------------------------------------------------------ two series that disagree
RECURSIVE Reverse(_)
Reverse(q) == IF q = <<>> THEN <<>> ELSE Append(Reverse(Tail(q)), Head(q))

\* a second series whose mode index table or shape is not that of W1
OtherSeries(W, kind, seed) ==
    CASE kind = "lm" ->
           [LM |-> Reverse(W.LM), n_times |-> W.n_times,
            data |-> MakeData(seed + 1, W.n_times, NModes(W.LM))]
      [] kind = "long" ->
           [LM |-> W.LM, n_times |-> W.n_times + 1,
            data |-> MakeData(seed + 1, W.n_times + 1, NModes(W.LM))]
      [] kind \in {"short", "shorter"} ->
           [LM |-> W.LM, n_times |-> W.n_times - 1,
            data |-> [MakeData(seed + 1, W.n_times - 1, NModes(W.LM))
                         EXCEPT !.past = IF kind = "short" THEN <<0, 0>> ELSE <<3, 1>>]]

InitMismatch ==
    /\ \E ell_min \in 0..MaxEll, nt \in 1..MaxTimes, seed \in 0..MaxSeed :
          /\ W1 = Series(LMTable(ell_min, MaxEll), nt, seed)
          /\ eigvecs = [t \in 0..(nt - 1) |-> EigPattern(seed, t)]
          /\ RoughDirectionIndex = 0
          /\ \E kind \in {"lm", "long", "short", "shorter"} : W2 = OtherSeries(W1, kind, seed)
    /\ RoughDirection = [shared |-> TRUE, v |-> <<0, 0, 1>>]
    /\ InitCalls
    /\ NoFrame

NextMismatch ==
    \/ LVector_call \/ LVector_loop \/ LVector_return
    \/ LLComparisonMatrix_call \/ LLComparisonMatrix_loop \/ LLComparisonMatrix_return
    \/ Loop_segfault

SpecMismatch == InitMismatch /\ [][NextMismatch]_vars

\* ------------------------------------------------------ the continuity walk
\* The eigenvectors np.linalg.eigh returns have norm 1 up to rounding; the
\* helper normalizes whatever it is handed, so the samples range over vectors
\* of several norms.  The index ranges over one past either end of what a
\* wrapped index can name.
InitWalk ==
    /\ \E nt \in 1..MaxWalkTimes :
          /\ W1 = Series(LMTable(0, 0), nt, 0)
          /\ eigvecs \in [0..(nt - 1) -> WalkVecs]
          /\ RoughDirectionIndex \in (-(nt + 1))..nt
    /\ W2 = [LM |-> W1.LM, n_times |-> W1.n_times, data |-> W1.data]
    /\ RoughDirection \in {[shared |-> TRUE, v |-> <<0, 0, 1>>],
                           [shared |-> FALSE, v |-> <<-1, 0, -1>>]}
    /\ InitCalls
    /\ NoFrame

NextWalk ==
    \/ LLDominantEigenvector_call \/ LLDominantEigenvector_loop
    \/ LLDominantEigenvector_eigh
    \/ Walk_orient \/ Walk_back \/ Walk_turn \/ Walk_fwd \/ Walk_end
    \/ Walk_segfault
    \/ LLDominantEigenvector_return

SpecWalk == InitWalk /\ [][NextWalk]_vars

\* ------------------------------------------------------ the corotating frame
\* what the collaborators of corotating_frame return for a series of n samples:
\* the angular velocity and the dominant eigenvector per sample, the sample of
\* largest norm, and the turn of the integrated frame from sample to sample
OmegaVals == << <<0, 0, 1>>, <<1, 0, 1>>, <<0, 0, -1>> >>
FrameEigVals == << <<Vec(0, 0, 1), Vec(0, 0, -2), Vec(0, 0, -1)>>,
                   <<Vec(2, 0, 0), Vec(-1, 0, 0), Vec(1, 0, 0)>> >>
FrameSeries(n, peak, seed, step) ==
    [LM |-> LMTable(0, 0), n_times |-> n,
     data |-> MakeData(seed, n, 1), data_dot |-> MakeData(seed + 3, n, 1),
     peak |-> peak,
     omega |-> [t \in 0..(n - 1) |-> OmegaVals[((seed + t) % Len(OmegaVals)) + 1]],
     eig |-> [t \in 0..(n - 1) |-> FrameEigVals[seed + 1][((seed + t) % 3) + 1]],
     step |-> step]

InitFrame ==
    /\ \E n \in (MaxFrameTimes - 3)..MaxFrameTimes, seed \in 0..1,
          step \in {<<0, 0, 0, 1>>, <<0, 1, 0, 0>>} :
          \E peak \in {2, n - 1} : Wf = FrameSeries(n, peak, seed, step)
    /\ R0 \in {QOne, <<0, 0, 1, 0>>}
    /\ z_alignment_region \in {None} \cup ((0..FracDen) \X (0..FracDen))
    /\ fpc = "idle"
    /\ frame = None
    /\ i1 = 0
    /\ i2 = 0
    /\ rough_at = -1
    /\ fret = NoReturn
    /\ W1 = [LM |-> Wf.LM, n_times |-> Wf.n_times, data |-> Wf.data, data_dot |-> Wf.data_dot]
    /\ W2 = [LM |-> Wf.LM, n_times |-> Wf.n_times, data |-> Wf.data]
    /\ eigvecs = Wf.eig
    /\ RoughDirection = [shared |-> TRUE, v |-> <<0, 0, 1>>]
    /\ RoughDirectionIndex = 0
    /\ InitCalls

\* LLDominantEigenvector is called with RoughDirectionIndex=0, so the loop
\* toward the start has no pass
NextFrame ==
    \/ corotating_frame_call \/ corotating_frame_return
    \/ corotating_frame_window \/ corotating_frame_rough \/ corotating_frame_IndexError
    \/ corotating_frame_eig \/ LLDominantEigenvector_loop \/ LLDominantEigenvector_eigh
    \/ Walk_orient \/ Walk_turn \/ Walk_fwd \/ Walk_end \/ Walk_segfault
    \/ LLDominantEigenvector_return
    \/ corotating_frame_return_aligned \/ corotating_frame_TypeError

SpecFrame == InitFrame /\ [][NextFrame]_vars

\* ====================================================== claims
Symmetric(LL) == \A t \in DOMAIN LL : \A a \in 0..2, b \in 0..2 : LL[t][<<a, b>>] = LL[t][<<b, a>>]
SameSeries == W2.LM = W1.LM /\ W2.n_times = W1.n_times /\ W2.data = W1.data

\* C1: for a series W, LLComparisonMatrix(W, W) equals LLMatrix(W) at every
\* time sample and in all nine entries: the real parts agree and the
\* imaginary parts are zero (LLMatrix's entries are real).
C1_ComparisonEqualsLLMatrix ==
    (SameSeries /\ Returned("LLMatrix") /\ Returned("LLComparisonMatrix"))
        => Result("LLComparisonMatrix") = Result("LLMatrix")

\* C2: the tensor LLMatrix accumulates is symmetric at every time sample,
\* after any number of modes and when it is returned.
C2_LLMatrixSymmetric ==
    /\ pc = "LLMatrix" => Symmetric(out)
    /\ Returned("LLMatrix") => Symmetric(Result("LLMatrix"))
\* LLMatrix has returned a tensor with a non-zero off-diagonal entry
C2_Witness ==
    /\ Returned("LLMatrix")
    /\ \E t \in DOMAIN Result("LLMatrix") : Result("LLMatrix")[t][<<0, 2>>] # SZero
    /\ \E t \in DOMAIN Result("LLMatrix") : Result("LLMatrix")[t][<<1, 2>>] # SZero

\* C3: LLComparisonMatrix accumulates a symmetrized tensor: each transpose
\* pair of entries holds the same value, and each of the nine entries is
\* incremented exactly once per (mode, time) pair.
C3_ComparisonSymmetrized ==
    /\ (pc = "LLComparisonMatrix" /\ i_mode > 0)
          => (Symmetric(out) /\ \A key \in MatKeys : hits[key] = 1)
    /\ Returned("LLComparisonMatrix") => Symmetric(Result("LLComparisonMatrix"))

\* the samples of dpa while the helper runs
Samples == 0..(NSamples - 1)
UnitNorm(v) == SqNum(v) = v[4] * v[4]
Dot(a, b) == a[1] * b[1] + a[2] * b[2] + a[3] * b[3]

\* C4: after the continuity correction with a valid pivot, every non-zero
\* sample has unit norm and was divided by no norm but its own.
C4_UnitNorm ==
    (wpc = "done" /\ ValidIndex(RoughDirectionIndex))
        => \A j \in Samples :
              /\ SqNum(mem[j]) # 0 => UnitNorm(mem[j])
              /\ normBy[j] \subseteq {j}
\* a finished walk from an inner pivot that divided the pivot and both ends
C4_Witness ==
    /\ wpc = "done"
    /\ NSamples >= 3
    /\ RoughDirectionIndex > 0 /\ RoughDirectionIndex < NSamples - 1
    /\ normBy[0] = {0}
    /\ normBy[RoughDirectionIndex] = {RoughDirectionIndex}
    /\ normBy[NSamples - 1] = {NSamples - 1}
    /\ \A j \in Samples : UnitNorm(mem[j])

EqualNorms ==
    \A j \in Samples : SqNum(eigvecs[j]) # 0 /\ SqNum(eigvecs[j]) = SqNum(eigvecs[0])

\* C5: over candidates of equal non-zero norm, a sample is flipped exactly
\* when the flipped vector is closer to its corrected neighbour, so after the
\* walk adjacent samples have a non-negative dot product.
C5_FlipIffCloser ==
    (EqualNorms /\ ValidIndex(RoughDirectionIndex))
        => /\ wpc \in {"back", "fwd"} => (decision.flipped <=> decision.closer)
           /\ wpc = "done" =>
                 \A j \in Samples : j + 1 \in Samples => Dot(mem[j], mem[j + 1]) >= 0

Mismatch == W1.LM # W2.LM \/ W1.data.nt # W2.data.nt \/ W1.data.nm # W2.data.nm

\* C6: a two-series accumulator whose series disagree in mode index table or
\* shape fails and returns no result.
C6_MismatchFails ==
    Mismatch => (~Returned("LVector") /\ ~Returned("LLComparisonMatrix"))

\* C7: LLDominantEigenvector fails for a RoughDirectionIndex outside
\* [0, n_times): it returns no field, and flips and normalizes no sample.
C7_InvalidIndexFails ==
    ~ValidIndex(RoughDirectionIndex)
        => /\ ~Returned("LLDominantEigenvector")
           /\ wpc \in {"back", "fwd", "done"} =>
                 \A j \in Samples : mem[j] = eigvecs[j] /\ normBy[j] = {}

\* C10: no call changes its inputs (the data, data_dot and LM of the series,
\* the RoughDirection argument and the array of its default value), and an
\* entry point called again returns what it returned the first time.
C10_NoCarriedState ==
    [][/\ W1' = W1 /\ W2' = W2
       /\ RoughDirection_default' = RoughDirection_default
       /\ RoughDirection' = RoughDirection
       /\ \A op \in Ops : res'[op] # None => res'[op] = first'[op]]_vars
\* every entry point has returned, and a further call of each kind is about to
CalledAgain(op) == pc = op /\ first[op] # None
C10_Witness ==
    /\ \A op \in Ops : first[op] # None
    /\ CalledAgain("LLDominantEigenvector") /\ wpc = "done"

DegenerateWindow == z_alignment_region # None /\ i2 <= i1 + 1

\* C8: with an alignment region whose window [i1, i2) holds no sample or one
\* sample, corotating_frame fails: it returns no frame.
C8_DegenerateWindowFails ==
    (fpc \in {"eig", "done"} /\ DegenerateWindow) => fret.kind # "frame"

\* C9: the first rotor corotating_frame returns is R0, with or without an
\* alignment region.
C9_FirstRotorIsR0 ==
    fret.kind = "frame" => fret.frame[0] = R0

\* the accumulators, whose loop bodies read neighbouring modes
Accumulators == {"LdtVector", "LVector", "LLComparisonMatrix", "LLMatrix"}
\* a term whose guard is false is zero
ZeroUnlessGuard(c, L, M) ==
    /\ ~Guard(L, M, 2) => c.LpLp = SZero
    /\ ~Guard(L, M, -2) => c.LmLm = SZero
    /\ ~Guard(L, M, 1) => (c.LmLp = SZero /\ c.LpLz = SZero /\ c.LzLp = SZero)
    /\ ~Guard(L, M, -1) => (c.LpLm = SZero /\ c.LmLz = SZero /\ c.LzLm = SZero)

\* C11: with a table that lists every m of -ell..ell in increasing order for
\* a contiguous range of ell, a loop pass of an accumulator reads
\* data[i_time, i_mode + off] exactly when mode (ell, m + off) exists; the
\* index is then in 0..n_modes-1 and names that mode, and a tensor term whose
\* intermediate or final m leaves -ell..ell is zero.
C11_NeighbourReadsInRange ==
    (pc \in Accumulators /\ reads.mode >= 0)
        => LET lm == W1.LM
               k == reads.mode
               L == EllOf(lm, k)
               M == MOf(lm, k)
           IN /\ \A off \in reads.offs :
                    /\ k + off >= 0 /\ k + off < NModes(lm)
                    /\ lm[k + off + 1] = <<L, M + off>>
              /\ \A off \in ((-Reach(DOMAIN out[0]))..Reach(DOMAIN out[0])) \ {0} :
                    (M + off >= -L /\ M + off <= L) => off \in reads.offs
              /\ pc = "LLMatrix" =>
                    \A t \in 0..(W1.data.nt - 1) :
                       ZeroUnlessGuard(_LLMatrix_terms(W1.data, lm, k, t), L, M)
              /\ pc = "LLComparisonMatrix" =>
                    \A t \in 0..(W1.data.nt - 1) :
                       ZeroUnlessGuard(_LLComparisonMatrix_terms(W1.data, W2.data, lm, k, t), L, M)
\* a tensor pass over a table of two ell blocks has read two modes ahead, and
\* the pass for the first mode of the second block has read nothing behind it
C11_Witness ==
    /\ pc = "LLMatrix"
    /\ EllOf(W1.LM, 0) < EllOf(W1.LM, NModes(W1.LM) - 1)
    /\ reads.mode = 1
    /\ reads.offs = {1, 2}

\* C12: when the flip test of a loop pass is taken, in either direction, the
\* neighbour it compares against (the pivot included) has not been divided by
\* its norm yet.
C12_DeferredNormalization ==
    (ValidIndex(RoughDirectionIndex) /\ wpc \in {"back", "fwd"} /\ decision # NoDecision)
        => ~decision.nbNormed

\* C13: with an alignment region, row 10 of the rough direction's window
\* exists, and it is the sample of W with index i1.
C13_RoughDirectionAtI1 ==
    (z_alignment_region # None /\ fpc \in {"eig", "done"})
        => /\ fret.kind # "IndexError"
           /\ rough_at = i1

\* C14: LdtVector(W) is, at every time sample and in all three components,
\* the imaginary part of what _LVector accumulates for data1 = W.data and
\* data2 = W.data_dot over the same mode index table.
C14_LdtIsImagOfLVector ==
    (W2.data = W1.data_dot /\ W2.LM = W1.LM
       /\ Returned("LdtVector") /\ Returned("LVector"))
        => \A t \in DOMAIN Result("LdtVector") : \A key \in VecKeys :
              Result("LdtVector")[t][key] = SImag(Result("LVector")[t][key])
\* both have returned for such a pair, with a non-zero x, y and z component
C14_Witness ==
    /\ W2.data = W1.data_dot
    /\ Returned("LdtVector") /\ Returned("LVector")
    /\ \A key \in VecKeys :
          \E t \in DOMAIN Result("LdtVector") : Result("LdtVector")[t][key] # SZero

====
